---- MODULE Spec2Model ----
(***************************************************************************)
(* A model of bmk_linux's measurement core:                                *)
(*   - ResultArray<T>  (src/src/resultarray.rs): an mmap'ed, mlock'ed,     *)
(*     fixed-capacity array;                                               *)
(*   - Clock for Tsc and std::time::Instant (src/src/timing.rs);           *)
(*   - MemoizedTimingData (src/src/timing.rs): memoised statistics.        *)
(*                                                                         *)
(* TLC's integers are 32 bits wide, so the 64-bit machine word (usize,     *)
(* u64) is modelled as a WordBits-bit word and the 53-bit significand of   *)
(* f64 as a MantissaBits-bit one.  Every width-dependent input below is    *)
(* derived from these two widths, so the same cases (wrap-around of a      *)
(* product, a sample that f64 cannot hold exactly) occur at any width.     *)
(*                                                                         *)
(* Option<X> is modelled as a sequence: None is <<>>, Some(x) is <<x>>.    *)
(***************************************************************************)
EXTENDS Integers, Sequences, FiniteSets

\* ------------------------------------------------------------------ bounds
\* Width of usize / u64 in the model (64 in the program).
WordBits == 16
\* Width of the f64 significand in the model (53 in the program).
MantissaBits == 4
\* At most this many successful pushes are explored.
MaxPush == 3
\* Pushed items are 1..MaxItem.
MaxItem == 2
\* Sample slices have at most this many elements when only the order
\* statistics are queried, and at most this many when every query is.
MaxSamples == 2
MaxCacheSamples == 1
\* Instant readings are 0..MaxInstant nanoseconds.
MaxInstant == 2

\* --------------------------------------------------------------- constants
PAGE_SIZE == 4096

\* ------------------------------------------------------------------- state
VARIABLES
    \* the build: whether integer overflow panics (debug) or wraps (release),
    \* and whether std's Instant::duration_since saturates (Rust >= 1.60) or
    \* panics (earlier toolchains) when `earlier` is later than `self`
    overflow_checks, instant_saturates,
    \* ResultArray<T>
    status,        \* "none", "new_failed", "live", "panicked", "dropping",
                   \* "dropped", "crashed"
    size_of_T,     \* mem::size_of::<T>()
    size,          \* ResultArray.size (bytes)
    cap,           \* ResultArray.cap
    len,           \* ResultArray.len
    mem,           \* byte offset of a written T |-> the item written there
    mapped_bytes,  \* bytes of the region currently mapped by this array
    unmap_count,   \* number of munmap calls made by drop
    new_call,      \* <<>> or <<[cap, size_of_T, mmap_ok, mlock_ok]>>: the
                   \* arguments of new and what the kernel answers
    pushed,        \* the items of the pushes that returned, in order
    iter_out,      \* <<>> or <<[items, read]>>: what the last iter() yielded
    drop_log,      \* byte offsets at which pop read (and dropped) a T
    \* Clock
    tsc_clock,     \* the last value rdtsc returned
    tsc_r,         \* two Tsc readings: slot |-> <<>> or <<[tsc, freq]>>
    inst_clock,    \* the last value Instant::now returned
    inst_r,        \* two Instant readings: slot |-> <<>> or <<t>>
    last_dur,      \* <<>> or <<[...]>>: the last duration_since call
    \* MemoizedTimingData
    cached_avg, cached_sd, cached_max, cached_sorted, cached_percentiles,
    last_query,    \* <<>> or <<[op, arg, input, fresh, ret]>>
    first_ret,     \* query |-> the first value that query returned
    cache_reads    \* <<op, key>>: the keys each method looked up in
                   \* cached_percentiles

build_vars == <<overflow_checks, instant_saturates>>
array_vars == <<status, size_of_T, size, cap, len, mem, mapped_bytes,
                unmap_count, new_call, pushed, iter_out, drop_log>>
clock_vars == <<tsc_clock, tsc_r, inst_clock, inst_r, last_dur>>
stats_vars == <<cached_avg, cached_sd, cached_max, cached_sorted,
                cached_percentiles, last_query, first_ret, cache_reads>>
vars == <<build_vars, array_vars, clock_vars, stats_vars>>

\* ----------------------------------------------------------------- helpers
RECURSIVE Pow2(_)
Pow2(n) == IF n = 0 THEN 1 ELSE 2 * Pow2(n - 1)

\* usize::MAX + 1 == u64::MAX + 1
WordModulus == Pow2(WordBits)
\* std::isize::MAX
ISIZE_MAX == Pow2(WordBits - 1) - 1

None == <<>>
Some(x) == <<x>>

\* ============================================================= ResultArray
\* size_of::<T>() of the element types explored: a zero-sized type, u8, and
\* two large structs that make a one-page array hold two or one elements.
SizesOfT == {0, 1, PAGE_SIZE \div 2, PAGE_SIZE}

\* Capacities given to new: small ones, one page of u8, and the ones whose
\* byte size reaches isize::MAX + 1, usize::MAX + 1 and one page beyond it.
Caps == {0, 1, 2, 3, PAGE_SIZE,
         Pow2(WordBits - 1) \div PAGE_SIZE,
         WordModulus \div PAGE_SIZE,
         WordModulus \div PAGE_SIZE + 1}

Items == 1..MaxItem

\* `cap * mem::size_of::<T>()`: <<>> when the multiplication panics (overflow
\* checks on), else the usize it yields (wrapped when overflow checks are off).
NewSize(c, t, checks) ==
    IF c * t >= WordModulus
    THEN IF checks THEN None ELSE Some((c * t) % WordModulus)
    ELSE Some(c * t)

\* The two assertions of new on the computed size.
NewSizeOk(s) == s % PAGE_SIZE = 0 /\ s < ISIZE_MAX

\* mmap(NULL, size, ..., MAP_PRIVATE | MAP_ANONYMOUS, -1, 0): a length of 0 is
\* EINVAL; any other length succeeds or not as the kernel decides (kernel_ok).
MmapSucceeds(s, kernel_ok) == s > 0 /\ kernel_ok

\* ResultArray::new(cap) for element size t.
New(c, t, mmap_ok, mlock_ok) ==
    /\ status = "none"
    /\ new_call' = Some([cap |-> c, size_of_T |-> t,
                         mmap_ok |-> mmap_ok, mlock_ok |-> mlock_ok])
    /\ size_of_T' = t
    /\ LET sz == NewSize(c, t, overflow_checks) IN
       IF sz = None \/ ~NewSizeOk(sz[1]) \/ ~MmapSucceeds(sz[1], mmap_ok)
       THEN /\ status' = "new_failed"
            /\ UNCHANGED <<size, cap, len, mapped_bytes>>
       ELSE IF ~mlock_ok
       THEN \* assert_eq!(ret, 0) fails: no ResultArray exists, the region
            \* stays mapped
            /\ status' = "new_failed"
            /\ mapped_bytes' = sz[1]
            /\ UNCHANGED <<size, cap, len>>
       ELSE /\ status' = "live"
            /\ size' = sz[1]
            /\ cap' = c
            /\ len' = 0
            /\ mapped_bytes' = sz[1]
    /\ UNCHANGED <<mem, unmap_count, pushed, iter_out, drop_log>>
    /\ UNCHANGED <<build_vars, clock_vars, stats_vars>>

\* `(self.ptr as *mut T).offset(i)`: the byte offset of element i.
ElemOffset(i, t) == i * t

\* `self.ptr.offset(i)` with self.ptr: *mut u8: a byte offset.
PopOffset(i, t) == i

\* The value a read of a T at byte offset `off` yields: the item written
\* there, or <<>> when no T was written at that offset (uninitialised or
\* partly overlapping bytes).
ReadT(m, off) == IF off \in DOMAIN m THEN Some(m[off]) ELSE None

WriteT(m, off, item) ==
    [o \in DOMAIN m \cup {off} |-> IF o = off THEN item ELSE m[o]]

\* `assert!(self.len < self.cap)`
PushAllowedOffByOne(n, c) == n <= c
PushAllowed(n, c) == n < c

\* ResultArray::push(item).  A write beyond the mapped region is undefined
\* behaviour: the process faults (crash) or the write lands in other memory.
Push(item, crash) ==
    /\ status = "live"
    /\ IF ~PushAllowed(len, cap)
       THEN /\ status' = "panicked"
            /\ UNCHANGED <<len, mem, pushed, iter_out>>
       ELSE /\ Len(pushed) < MaxPush
            /\ LET off == ElemOffset(len, size_of_T) IN
               IF off + size_of_T > size /\ crash
               THEN /\ status' = "crashed"
                    /\ len' = len + 1
                    /\ UNCHANGED <<mem, pushed, iter_out>>
               ELSE /\ len' = len + 1
                    /\ mem' = WriteT(mem, off, item)
                    /\ pushed' = Append(pushed, item)
                    /\ iter_out' = None
                    /\ UNCHANGED status
    /\ UNCHANGED <<size_of_T, size, cap, mapped_bytes, unmap_count, new_call,
                   drop_log>>
    /\ UNCHANGED <<build_vars, clock_vars, stats_vars>>

\* `slice::from_raw_parts(self.ptr as *const T, self.len)`: the slots the
\* slice covers and the values read from them.
AsSliceWholeCap(m, t, n, c) ==
    [items |-> [i \in 1..c |-> ReadT(m, ElemOffset(i - 1, t))],
     read  |-> 0..(c - 1)]
AsSlice(m, t, n, c) ==
    [items |-> [i \in 1..n |-> ReadT(m, ElemOffset(i - 1, t))],
     read  |-> 0..(n - 1)]

\* ResultArray::iter(), consumed to its end.
Iter ==
    /\ status = "live"
    /\ iter_out' = Some(AsSlice(mem, size_of_T, len, cap))
    /\ UNCHANGED <<status, size_of_T, size, cap, len, mem, mapped_bytes,
                   unmap_count, new_call, pushed, drop_log>>
    /\ UNCHANGED <<build_vars, clock_vars, stats_vars>>

\* One iteration of drop's loop: `while self.len > 0 { self.pop() }`.  pop
\* reads a T at PopOffset and drops it; dropping bytes that are no T is
\* undefined behaviour: the process faults (crash) or carries on.
DropPop(crash) ==
    /\ status \in {"live", "panicked", "dropping"}
    /\ len > 0
    /\ len' = len - 1
    /\ LET off == PopOffset(len - 1, size_of_T) IN
       /\ drop_log' = Append(drop_log, off)
       /\ status' = IF ReadT(mem, off) = None /\ crash
                    THEN "crashed" ELSE "dropping"
    /\ UNCHANGED <<size_of_T, size, cap, mem, mapped_bytes, unmap_count,
                   new_call, pushed, iter_out>>
    /\ UNCHANGED <<build_vars, clock_vars, stats_vars>>

\* The end of drop: `libc_munmap(self.ptr, self.size)`.
DropUnmap ==
    /\ status \in {"live", "panicked", "dropping"}
    /\ len = 0
    /\ status' = "dropped"
    /\ mapped_bytes' = mapped_bytes - size
    /\ unmap_count' = unmap_count + 1
    /\ UNCHANGED <<size_of_T, size, cap, len, mem, new_call, pushed, iter_out,
                   drop_log>>
    /\ UNCHANGED <<build_vars, clock_vars, stats_vars>>

ArrayNext ==
    \/ \E c \in Caps, t \in SizesOfT, mmap_ok \in BOOLEAN, mlock_ok \in BOOLEAN :
          New(c, t, mmap_ok, mlock_ok)
    \/ \E item \in Items, crash \in BOOLEAN : Push(item, crash)
    \/ Iter
    \/ \E crash \in BOOLEAN : DropPop(crash)
    \/ DropUnmap

ArrayInit ==
    /\ status = "none"
    /\ size_of_T = 0
    /\ size = 0
    /\ cap = 0
    /\ len = 0
    /\ mem = <<>>
    /\ mapped_bytes = 0
    /\ unmap_count = 0
    /\ new_call = None
    /\ pushed = <<>>
    /\ iter_out = None
    /\ drop_log = <<>>

\* =================================================================== Clock
\* The largest tick difference whose product with 1000 fits the word.
MaxExactDiff == (WordModulus - 1) \div 1000

\* Values rdtsc returns in the runs explored: small ones, two just beyond
\* MaxExactDiff, and the largest word.
TscSamples == {0, 1, 2, MaxExactDiff + 1, MaxExactDiff + 2, WordModulus - 1}

\* Scaling factors given to set_scaling_factor.
Factors == {0, 1, 3}

Instants == 0..MaxInstant

Slots == {1, 2}

\* <Tsc as Clock>::now(): `Tsc { tsc: rdtsc(), freq: None }`.  On one core
\* rdtsc returns a larger value at every read.
TscNowReading(t) == [tsc |-> t, freq |-> None]

TscNow(slot, t) ==
    /\ IF tsc_clock = None THEN TRUE ELSE t > tsc_clock[1]
    /\ tsc_clock' = Some(t)
    /\ tsc_r' = [tsc_r EXCEPT ![slot] = Some(TscNowReading(t))]
    /\ UNCHANGED <<inst_clock, inst_r, last_dur>>
    /\ UNCHANGED <<build_vars, array_vars, stats_vars>>

\* <Tsc as Clock>::set_scaling_factor(freq): `self.freq = Some(freq)`.
TscSetScalingFactor(slot, f) ==
    /\ tsc_r[slot] # None
    /\ tsc_r' = [tsc_r EXCEPT ![slot] = Some([tsc_r[slot][1] EXCEPT !.freq = Some(f)])]
    /\ UNCHANGED <<tsc_clock, inst_clock, inst_r, last_dur>>
    /\ UNCHANGED <<build_vars, array_vars, stats_vars>>

\* <Tsc as Clock>::duration_since(&self, earlier): <<>> when it panics, else
\* <<nanos>>.  `diff * 1000` is a u64 product: it panics when it overflows
\* with overflow checks on and wraps with them off; the division panics on a
\* zero divisor.
TscDurationDefaultFreq(self, earlier, checks) ==
    IF ~(earlier.tsc < self.tsc) THEN None
    ELSE LET diff == self.tsc - earlier.tsc
             prod == diff * 1000
             freq == IF self.freq = None THEN 1 ELSE self.freq[1]
         IN  IF prod >= WordModulus /\ checks THEN None
             ELSE IF freq = 0 THEN None
             ELSE Some((prod % WordModulus) \div freq)
TscDuration(self, earlier, checks) ==
    IF ~(earlier.tsc < self.tsc) THEN None
    ELSE LET diff == self.tsc - earlier.tsc
             prod == diff * 1000
         IN  IF prod >= WordModulus /\ checks THEN None
             ELSE IF self.freq = None THEN None
             ELSE IF self.freq[1] = 0 THEN None
             ELSE Some((prod % WordModulus) \div self.freq[1])

\* A call self.duration_since(earlier) on two Tsc readings; `earlier` is moved
\* into the call (Tsc is not Copy).
TscDurationSince(self_slot, earlier_slot) ==
    /\ self_slot # earlier_slot
    /\ tsc_r[self_slot] # None
    /\ tsc_r[earlier_slot] # None
    /\ LET self == tsc_r[self_slot][1]
           earlier == tsc_r[earlier_slot][1]
       IN  last_dur' = Some([variant   |-> "tsc",
                             self_t    |-> self.tsc,
                             earlier_t |-> earlier.tsc,
                             self_freq |-> self.freq,
                             ret       |-> TscDuration(self, earlier, overflow_checks)])
    /\ tsc_r' = [tsc_r EXCEPT ![earlier_slot] = None]
    /\ UNCHANGED <<tsc_clock, inst_clock, inst_r>>
    /\ UNCHANGED <<build_vars, array_vars, stats_vars>>

\* <Instant as Clock>::now(): the monotonic clock never goes back.
InstantNow(slot, t) ==
    /\ IF inst_clock = None THEN TRUE ELSE t >= inst_clock[1]
    /\ inst_clock' = Some(t)
    /\ inst_r' = [inst_r EXCEPT ![slot] = Some(t)]
    /\ UNCHANGED <<tsc_clock, tsc_r, last_dur>>
    /\ UNCHANGED <<build_vars, array_vars, stats_vars>>

\* <Instant as Clock>::set_scaling_factor: a no-op.
InstantSetScalingFactor(slot, f) ==
    /\ inst_r[slot] # None
    /\ UNCHANGED <<clock_vars, build_vars, array_vars, stats_vars>>

\* <Instant as Clock>::duration_since: `self.duration_since(earlier)` resolves
\* to the inherent std::time::Instant::duration_since, which panics on a later
\* `earlier` up to Rust 1.59 and returns a zero Duration from Rust 1.60 on.
InstantDuration(self, earlier, saturates) ==
    IF earlier <= self THEN Some(self - earlier)
    ELSE IF saturates THEN Some(0) ELSE None

InstantDurationSince(self_slot, earlier_slot) ==
    /\ inst_r[self_slot] # None
    /\ inst_r[earlier_slot] # None
    /\ LET self == inst_r[self_slot][1]
           earlier == inst_r[earlier_slot][1]
       IN  last_dur' = Some([variant   |-> "instant",
                             self_t    |-> self,
                             earlier_t |-> earlier,
                             self_freq |-> None,
                             ret       |-> InstantDuration(self, earlier, instant_saturates)])
    /\ UNCHANGED <<tsc_clock, tsc_r, inst_clock, inst_r>>
    /\ UNCHANGED <<build_vars, array_vars, stats_vars>>

TscNext ==
    \/ \E slot \in Slots, t \in TscSamples : TscNow(slot, t)
    \/ \E slot \in Slots, f \in Factors : TscSetScalingFactor(slot, f)
    \/ \E s \in Slots, e \in Slots : TscDurationSince(s, e)

InstantNext ==
    \/ \E slot \in Slots, t \in Instants : InstantNow(slot, t)
    \/ \E slot \in Slots, f \in Factors : InstantSetScalingFactor(slot, f)
    \/ \E s \in Slots, e \in Slots : InstantDurationSince(s, e)

ClockInit ==
    /\ tsc_clock = None
    /\ tsc_r = [s \in Slots |-> None]
    /\ inst_clock = None
    /\ inst_r = [s \in Slots |-> None]
    /\ last_dur = None

\* ====================================================== MemoizedTimingData
\* An f64 is modelled as the exact number it holds: num/den in lowest terms,
\* or the square root of num/den when root is TRUE; 0/0 is NaN.  The rounding
\* of a u64 to f64 (`as f64`) is modelled by F64FromU64; the rounding of a
\* quotient and of a square root is not.
NaN == [num |-> 0, den |-> 0, root |-> FALSE]
F64Int(v) == [num |-> v, den |-> 1, root |-> FALSE]

RECURSIVE BitLen(_)
BitLen(x) == IF x = 0 THEN 0 ELSE 1 + BitLen(x \div 2)

\* `x as f64` for an unsigned integer x: the nearest number with a
\* MantissaBits-bit significand, ties to the even significand.
RoundToMantissa(x) ==
    IF BitLen(x) <= MantissaBits THEN x
    ELSE LET unit == Pow2(BitLen(x) - MantissaBits)
             q    == x \div unit
             r    == x % unit
         IN  IF 2 * r > unit \/ (2 * r = unit /\ q % 2 = 1)
             THEN (q + 1) * unit
             ELSE q * unit

F64FromU64(x) == F64Int(RoundToMantissa(x))

RECURSIVE Gcd(_, _)
Gcd(a, b) == IF b = 0 THEN a ELSE Gcd(b, a % b)

\* a / b for non-negative integers a, b held in f64.
F64Div(a, b) ==
    IF b = 0 THEN NaN
    ELSE LET g == Gcd(a, b) IN [num |-> a \div g, den |-> b \div g, root |-> FALSE]

\* Sample values: small ones and the first integer f64 cannot hold.
SampleVals == {1, Pow2(MantissaBits) + 1}

RECURSIVE SlicesOfLen(_)
SlicesOfLen(n) ==
    IF n = 0 THEN {<<>>}
    ELSE {Append(m, v) : m \in SlicesOfLen(n - 1), v \in SampleVals}

Slices == UNION {SlicesOfLen(n) : n \in 0..MaxSamples}
ShortSlices == UNION {SlicesOfLen(n) : n \in 0..MaxCacheSamples}

PercentileArgs == {0, 50, 100, 999999}
PermicrotileArgs == {50, 990000, 999999, 1000000}

\* `measurements.iter().sum()` in u64: <<>> when the sum panics (overflow
\* checks on), else the (wrapped) sum.
RECURSIVE SumU64(_, _)
SumU64(m, checks) ==
    IF m = <<>> THEN Some(0)
    ELSE LET rest == SumU64(Tail(m), checks) IN
         IF rest = None THEN None
         ELSE IF Head(m) + rest[1] >= WordModulus
         THEN IF checks THEN None ELSE Some((Head(m) + rest[1]) % WordModulus)
         ELSE Some(Head(m) + rest[1])

\* MemoizedTimingData::avg: the value returned (<<>> on a panic) and the
\* cached_avg it leaves.
AvgCallRecompute(c_avg, m, checks) ==
    LET sum == SumU64(m, checks) IN
    IF sum = None THEN [ret |-> None, cached_avg |-> c_avg]
    ELSE LET avg == F64Div(RoundToMantissa(sum[1]), RoundToMantissa(Len(m)))
         IN  [ret |-> Some(avg), cached_avg |-> Some(avg)]
AvgCall(c_avg, m, checks) ==
    IF c_avg # None THEN [ret |-> c_avg, cached_avg |-> c_avg]
    ELSE LET sum == SumU64(m, checks) IN
         IF sum = None THEN [ret |-> None, cached_avg |-> None]
         ELSE LET avg == F64Div(RoundToMantissa(sum[1]), RoundToMantissa(Len(m)))
              IN  [ret |-> Some(avg), cached_avg |-> Some(avg)]

\* Sum over the measurements of (x as f64 * den - num)^2: the numerator of
\* the sum of squared deviations from the mean num/den.
RECURSIVE DevSqNum(_, _)
DevSqNum(m, avg) ==
    IF m = <<>> THEN 0
    ELSE LET d == RoundToMantissa(Head(m)) * avg.den - avg.num
         IN  d * d + DevSqNum(Tail(m), avg)

\* `(deviations_sq / n).sqrt()`
SdValue(m, avg) ==
    IF avg = NaN \/ m = <<>> THEN NaN
    ELSE LET num == DevSqNum(m, avg)
             den == avg.den * avg.den * RoundToMantissa(Len(m))
             g   == Gcd(num, den)
         IN  [num |-> num \div g, den |-> den \div g, root |-> TRUE]

\* MemoizedTimingData::sorted_data: measurements.to_vec() sorted ascending.
RECURSIVE Insert(_, _)
Insert(sorted, v) ==
    IF sorted = <<>> THEN <<v>>
    ELSE IF v <= Head(sorted) THEN <<v>> \o sorted
    ELSE <<Head(sorted)>> \o Insert(Tail(sorted), v)

RECURSIVE SortUnstable(_)
SortUnstable(m) ==
    IF m = <<>> THEN <<>> ELSE Insert(SortUnstable(Tail(m)), Head(m))

SortedData(c_sorted, m) ==
    IF c_sorted # None THEN c_sorted[1] ELSE SortUnstable(m)

\* `assert!(percentile < 100)`
PercentileArgOk(p) == p < 100

\* `assert!(permicrotile < 1_000_000 && permicrotile > 990_000)`
PermicrotileArgOkEither(q) == q < 1000000 \/ q > 990000
PermicrotileArgOk(q) == q < 1000000 /\ q > 990000

\* `sorted.len() * percentile / 100`
PercentileIndexRounded(n, p) == (n * p + 50) \div 100
PercentileIndex(n, p) == (n * p) \div 100

\* `sorted.len() * permicrotile / 1_000_000`
PermicrotileIndex(n, q) == (n * q) \div 1000000

Fresh ==
    /\ cached_avg = None
    /\ cached_sd = None
    /\ cached_max = None
    /\ cached_sorted = None
    /\ cached_percentiles = <<>>

\* The record of a call, and of the first value each query returned.
Record(op, arg, m, ret) ==
    /\ last_query' = Some([op |-> op, arg |-> arg, input |-> m,
                           fresh |-> Fresh, ret |-> ret])
    /\ first_ret' =
          IF ret = None \/ <<op, arg>> \in DOMAIN first_ret THEN first_ret
          ELSE [k \in DOMAIN first_ret \cup {<<op, arg>>} |->
                   IF k = <<op, arg>> THEN ret[1] ELSE first_ret[k]]

Avg(m) ==
    /\ LET r == AvgCall(cached_avg, m, overflow_checks) IN
       /\ cached_avg' = r.cached_avg
       /\ Record("avg", 0, m, r.ret)
    /\ UNCHANGED <<cached_sd, cached_max, cached_sorted, cached_percentiles,
                   cache_reads>>
    /\ UNCHANGED <<build_vars, array_vars, clock_vars>>

Sd(m) ==
    /\ IF cached_sd # None
       THEN /\ Record("sd", 0, m, cached_sd)
            /\ UNCHANGED <<cached_avg, cached_sd>>
       ELSE LET r == AvgCall(cached_avg, m, overflow_checks) IN
            /\ cached_avg' = r.cached_avg
            /\ IF r.ret = None
               THEN /\ Record("sd", 0, m, None)
                    /\ UNCHANGED cached_sd
               ELSE /\ cached_sd' = Some(SdValue(m, r.ret[1]))
                    /\ Record("sd", 0, m, Some(SdValue(m, r.ret[1])))
    /\ UNCHANGED <<cached_max, cached_sorted, cached_percentiles, cache_reads>>
    /\ UNCHANGED <<build_vars, array_vars, clock_vars>>

\* The body shared by percentile and permicrotile once the argument passed
\* its assertion: look the key up, else index the sorted data and insert.
Quantile(op, m, key, idx) ==
    /\ cache_reads' = cache_reads \cup {<<op, key>>}
    /\ IF key \in DOMAIN cached_percentiles
       THEN /\ Record(op, key, m, Some(cached_percentiles[key]))
            /\ UNCHANGED <<cached_sorted, cached_percentiles>>
       ELSE LET sorted == SortedData(cached_sorted, m) IN
            /\ cached_sorted' = Some(sorted)
            /\ IF ~(idx < Len(sorted))
               THEN /\ Record(op, key, m, None)
                    /\ UNCHANGED cached_percentiles
               ELSE LET val == F64FromU64(sorted[idx + 1]) IN
                    /\ cached_percentiles' =
                          [k \in DOMAIN cached_percentiles \cup {key} |->
                              IF k = key THEN val ELSE cached_percentiles[k]]
                    /\ Record(op, key, m, Some(val))

Percentile(m, p) ==
    /\ IF ~PercentileArgOk(p)
       THEN /\ Record("percentile", p, m, None)
            /\ UNCHANGED <<cached_sorted, cached_percentiles, cache_reads>>
       ELSE Quantile("percentile", m, p,
                     PercentileIndex(Len(SortedData(cached_sorted, m)), p))
    /\ UNCHANGED <<cached_avg, cached_sd, cached_max>>
    /\ UNCHANGED <<build_vars, array_vars, clock_vars>>

Permicrotile(m, q) ==
    /\ IF ~PermicrotileArgOk(q)
       THEN /\ Record("permicrotile", q, m, None)
            /\ UNCHANGED <<cached_sorted, cached_percentiles, cache_reads>>
       ELSE Quantile("permicrotile", m, q,
                     PermicrotileIndex(Len(SortedData(cached_sorted, m)), q))
    /\ UNCHANGED <<cached_avg, cached_sd, cached_max>>
    /\ UNCHANGED <<build_vars, array_vars, clock_vars>>

Max(m) ==
    /\ IF cached_max # None
       THEN /\ Record("max", 0, m, cached_max)
            /\ UNCHANGED <<cached_max, cached_sorted>>
       ELSE LET sorted == SortedData(cached_sorted, m) IN
            /\ cached_sorted' = Some(sorted)
            /\ IF sorted = <<>>
               THEN /\ Record("max", 0, m, None)
                    /\ UNCHANGED cached_max
               ELSE LET val == F64FromU64(sorted[Len(sorted)]) IN
                    /\ cached_max' = Some(val)
                    /\ Record("max", 0, m, Some(val))
    /\ UNCHANGED <<cached_avg, cached_sd, cached_percentiles, cache_reads>>
    /\ UNCHANGED <<build_vars, array_vars, clock_vars>>

\* Every query, over the short slices.
StatsNext ==
    \/ \E m \in ShortSlices : Avg(m)
    \/ \E m \in ShortSlices : Sd(m)
    \/ \E m \in ShortSlices, p \in PercentileArgs : Percentile(m, p)
    \/ \E m \in ShortSlices, q \in PermicrotileArgs : Permicrotile(m, q)
    \/ \E m \in ShortSlices : Max(m)

\* The order statistics alone, over every slice.
OrderNext ==
    \/ \E m \in Slices, p \in PercentileArgs : Percentile(m, p)
    \/ \E m \in Slices, q \in PermicrotileArgs : Permicrotile(m, q)
    \/ \E m \in Slices : Max(m)

\* MemoizedTimingData::new()
StatsInit ==
    /\ cached_avg = None
    /\ cached_sd = None
    /\ cached_max = None
    /\ cached_sorted = None
    /\ cached_percentiles = <<>>
    /\ last_query = None
    /\ first_ret = <<>>
    /\ cache_reads = {}

\* ========================================================== specifications
BuildInit ==
    /\ overflow_checks \in BOOLEAN
    /\ instant_saturates \in BOOLEAN

Init == BuildInit /\ ArrayInit /\ ClockInit /\ StatsInit

Next == ArrayNext \/ TscNext \/ InstantNext \/ StatsNext \/ OrderNext

Spec == Init /\ [][Next]_vars

\* Each component on its own (they share no state), under the builds that
\* bear on it: overflow checks bear on ResultArray::new and on Tsc, the
\* toolchain's Instant on Instant alone.  No sum of the explored samples
\* overflows, so the statistics are explored under one build.
OverflowBuilds == Init /\ instant_saturates
ToolchainBuilds == Init /\ overflow_checks
OneBuild == Init /\ overflow_checks /\ instant_saturates

ArraySpec == OverflowBuilds /\ [][ArrayNext]_vars
TscSpec == OverflowBuilds /\ [][TscNext]_vars
InstantSpec == ToolchainBuilds /\ [][InstantNext]_vars
StatsSpec == OneBuild /\ [][StatsNext]_vars
OrderSpec == OneBuild /\ [][OrderNext]_vars


\* ================================================================== claims
Constructed == status \in {"live", "panicked", "dropping", "dropped", "crashed"}

\* The byte offsets of the slots the returned pushes constructed.
ConstructedOffsets == {ElemOffset(i - 1, size_of_T) : i \in 1..Len(pushed)}

\* C1: after k <= cap pushes, iter() yields exactly the k pushed elements in
\* insertion order, and reads no slot at an index >= len.
C1_IterYieldsPushesInOrder ==
    (status = "live" /\ iter_out # None) =>
        /\ Len(pushed) <= cap
        /\ iter_out[1].items = [i \in 1..Len(pushed) |-> Some(pushed[i])]
        /\ iter_out[1].read \subseteq 0..(len - 1)

C1_Witness ==
    /\ status = "live"
    /\ iter_out # None
    /\ size_of_T > 1
    /\ Len(pushed) = 2
    /\ pushed[1] # pushed[2]
    /\ Len(iter_out[1].items) = 2

\* C2: destroying a ResultArray runs the destructor of each constructed
\* element exactly once, at the slot where push wrote it, never elsewhere,
\* and unmaps the region exactly once, after every destructor has run.
C2_DropDestructsEachSlotOnce ==
    /\ \A k \in 1..Len(drop_log) : drop_log[k] \in ConstructedOffsets
    /\ \A j, k \in 1..Len(drop_log) : drop_log[j] = drop_log[k] => j = k
    /\ unmap_count > 0 => status = "dropped"
    /\ status = "dropped" =>
          /\ unmap_count = 1
          /\ mapped_bytes = 0
          /\ Len(drop_log) = Len(pushed)

\* cap is the value given to new and 0 <= len <= cap.
C3_CapAndLen ==
    Constructed => (cap = new_call[1].cap /\ 0 <= len /\ len <= cap)

\* A push at len = cap panics and leaves the memory, len and cap as they were.
C3_FullPushStep ==
    \A item \in Items, crash \in BOOLEAN :
        (len = cap /\ Push(item, crash)) =>
            (status' = "panicked" /\ mem' = mem /\ len' = len /\ cap' = cap)

\* C3: a push at len = cap panics and writes no slot; in every state cap is
\* the value given to new and 0 <= len <= cap.
C3_PushWhenFullPanics == []C3_CapAndLen /\ [][C3_FullPushStep]_vars

C3_Witness ==
    /\ status = "panicked"
    /\ cap > 0
    /\ len = cap
    /\ Len(pushed) = cap

\* C4: new(cap) panics whenever cap * size_of::<T>() is not a positive
\* multiple of the page size or is not below isize::MAX or a system call
\* fails; for a byte size that is a positive multiple of the page size (below
\* isize::MAX, the system calls succeeding) it returns an empty array whose
\* region is exactly cap * size_of::<T>() bytes.
C4_NewChecksByteSize ==
    new_call # None =>
        LET bytes == new_call[1].cap * new_call[1].size_of_T
            sized == bytes > 0 /\ bytes % PAGE_SIZE = 0 /\ bytes < ISIZE_MAX
            calls == new_call[1].mmap_ok /\ new_call[1].mlock_ok
        IN  /\ ~(sized /\ calls) => status = "new_failed"
            /\ (sized /\ calls) =>
                  /\ Constructed
                  /\ size = bytes
                  /\ status = "live" => mapped_bytes = bytes
                  /\ pushed = <<>> /\ status = "live" => len = 0

\* C5: duration_since panics whenever `earlier` was read after `self`.
C5_ReversedOrderPanics ==
    (last_dur # None /\ last_dur[1].earlier_t > last_dur[1].self_t) =>
        last_dur[1].ret = None

\* C6: for Tsc readings r1 before r2 and a scaling factor set on r2,
\* r2.duration_since(r1) returns floor((r2.tsc - r1.tsc) * 1000 / factor)
\* nanoseconds, for every tick difference.
C6_TscDurationIsLinear ==
    (/\ last_dur # None
     /\ last_dur[1].variant = "tsc"
     /\ last_dur[1].earlier_t < last_dur[1].self_t
     /\ last_dur[1].self_freq # None
     /\ last_dur[1].self_freq # Some(0)) =>
        last_dur[1].ret =
            Some(((last_dur[1].self_t - last_dur[1].earlier_t) * 1000)
                    \div last_dur[1].self_freq[1])

\* A Tsc duration_since on a self without scaling factor panicked.
C7_NoFactorPanics ==
    (last_dur # None /\ last_dur[1].variant = "tsc"
        /\ last_dur[1].self_freq = None) => last_dur[1].ret = None

\* The reading now() stores has no scaling factor.
C7_NowStep ==
    \A slot \in Slots, t \in TscSamples :
        TscNow(slot, t) => tsc_r'[slot][1].freq = None

\* C7: Tsc::duration_since panics when no scaling factor was set on self, and
\* a reading fresh from now() has none (there is no default divisor).
C7_TscNeedsScalingFactor == []C7_NoFactorPanics /\ [][C7_NowStep]_vars

C7_Witness ==
    /\ last_dur # None
    /\ last_dur[1].variant = "tsc"
    /\ last_dur[1].self_freq = None
    /\ last_dur[1].earlier_t < last_dur[1].self_t
    /\ last_dur[1].ret = None

\* C8: once avg, sd, max or percentile(p) has returned a value, every later
\* call of that query returns that same value, whatever slice it is given,
\* and the cached value is never replaced.
C8_CachedValuesPersist ==
    /\ (last_query # None /\ last_query[1].ret # None) =>
          last_query[1].ret[1] = first_ret[<<last_query[1].op, last_query[1].arg>>]
    /\ \A k \in DOMAIN first_ret :
          /\ k[1] = "avg" => cached_avg = Some(first_ret[k])
          /\ k[1] = "sd" => cached_sd = Some(first_ret[k])
          /\ k[1] = "max" => cached_max = Some(first_ret[k])
          /\ k[1] = "percentile" =>
                (k[2] \in DOMAIN cached_percentiles
                    /\ cached_percentiles[k[2]] = first_ret[k])

\* A later call returned the cached value although a fresh instance would
\* return another one for the slice it was given.
C8_Witness ==
    /\ last_query # None
    /\ last_query[1].op \in {"avg", "max"}
    /\ ~last_query[1].fresh
    /\ last_query[1].ret # None
    /\ last_query[1].input # <<>>
    /\ IF last_query[1].op = "avg"
       THEN last_query[1].ret # AvgCall(None, last_query[1].input, overflow_checks).ret
       ELSE last_query[1].ret[1].num < last_query[1].input[1]

\* The element at zero-based index idx of m sorted ascending: the element e
\* with at most idx elements below it and more than idx elements not above.
KthSmallest(m, idx) ==
    CHOOSE e \in {m[i] : i \in 1..Len(m)} :
        /\ Cardinality({i \in 1..Len(m) : m[i] < e}) <= idx
        /\ idx < Cardinality({i \in 1..Len(m) : m[i] <= e})

\* The largest element of m.
Largest(m) ==
    CHOOSE e \in {m[i] : i \in 1..Len(m)} : \A i \in 1..Len(m) : m[i] <= e

\* v is the f64 nearest to the integer e, and e itself when e has no more
\* than MantissaBits bits.
IsF64Of(v, e) ==
    /\ v.den = 1 /\ ~v.root
    /\ BitLen(e) <= MantissaBits => v.num = e
    /\ BitLen(e) > MantissaBits =>
          /\ 2 * (v.num - e) <= Pow2(BitLen(e) - MantissaBits)
          /\ 2 * (e - v.num) <= Pow2(BitLen(e) - MantissaBits)
          /\ v.num % Pow2(BitLen(e) - MantissaBits) = 0

FreshOrderQuery(op) ==
    /\ last_query # None
    /\ last_query[1].fresh
    /\ last_query[1].op = op

\* C9 as stated: on a fresh instance percentile(samples, p), 0 <= p < 100,
\* returns the element at index floor(n*p/100) of the sorted samples and max
\* the largest sample; percentile on an empty slice panics.
C9_PercentileReturnsElement ==
    /\ (FreshOrderQuery("percentile") /\ last_query[1].arg < 100) =>
          LET m == last_query[1].input IN
          IF m = <<>> THEN last_query[1].ret = None
          ELSE last_query[1].ret =
                  Some(F64Int(KthSmallest(m, (Len(m) * last_query[1].arg) \div 100)))
    /\ (FreshOrderQuery("max") /\ last_query[1].input # <<>>) =>
          last_query[1].ret = Some(F64Int(Largest(last_query[1].input)))

\* C9 as amended: the value returned is the f64 nearest to that element (the
\* element itself when it is below 2^MantissaBits).
C9_PercentileReturnsF64OfElement ==
    /\ (FreshOrderQuery("percentile") /\ last_query[1].arg < 100) =>
          LET m == last_query[1].input IN
          IF m = <<>> THEN last_query[1].ret = None
          ELSE /\ last_query[1].ret # None
               /\ IsF64Of(last_query[1].ret[1],
                          KthSmallest(m, (Len(m) * last_query[1].arg) \div 100))
    /\ (FreshOrderQuery("max") /\ last_query[1].input # <<>>) =>
          /\ last_query[1].ret # None
          /\ IsF64Of(last_query[1].ret[1], Largest(last_query[1].input))

C9_Witness ==
    /\ FreshOrderQuery("percentile")
    /\ last_query[1].arg = 50
    /\ Len(last_query[1].input) = 2
    /\ last_query[1].input[1] > last_query[1].input[2]
    /\ last_query[1].ret = Some(F64Int(Pow2(MantissaBits)))

InPercentileRange(k) == 0 <= k /\ k < 100
InPermicrotileRange(k) == 990000 < k /\ k < 1000000

\* C10: percentile with p >= 100 and permicrotile with q <= 990000 or
\* q >= 1000000 panic in every cache state, so percentile looks up and
\* inserts keys of [0, 100) only and permicrotile keys of (990000, 1000000).
C10_OutOfRangeArgumentPanics ==
    /\ (last_query # None /\ last_query[1].op = "percentile"
           /\ ~InPercentileRange(last_query[1].arg)) => last_query[1].ret = None
    /\ (last_query # None /\ last_query[1].op = "permicrotile"
           /\ ~InPermicrotileRange(last_query[1].arg)) => last_query[1].ret = None
    /\ \A r \in cache_reads :
          /\ r[1] = "percentile" => InPercentileRange(r[2])
          /\ r[1] = "permicrotile" => InPermicrotileRange(r[2])
    /\ \A k \in DOMAIN cached_percentiles :
          InPercentileRange(k) \/ InPermicrotileRange(k)

\* percentile panicked on a key that permicrotile had already cached.
C10_Witness ==
    /\ last_query # None
    /\ last_query[1].op = "percentile"
    /\ last_query[1].arg \in DOMAIN cached_percentiles
    /\ ~InPercentileRange(last_query[1].arg)
    /\ last_query[1].ret = None

====
